---- MODULE Spec2Model ----
(***************************************************************************)
(* Model of Snippets/StatusLine.py: an i3bar status line.  main() prints   *)
(* the protocol preamble, creates the click_handler task, registers the    *)
(* signal handler, registers six blocks (one out_loop task each) and runs  *)
(* the asyncio event loop.  Every callback of the event loop (a task's run *)
(* from one await to the next, or a signal handler) is one atomic action:  *)
(* the code between two awaits is synchronous, subprocess.run included.    *)
(***************************************************************************)
EXTENDS Integers, Sequences, FiniteSets, TLC

VARIABLES
    mainpc,    \* the statement of StatusLine.main the program is at
    out,       \* the lines written to stdout, in order
    blocks,    \* self.blocks: insertion-ordered dict, a sequence of [key, val]
    handlers,  \* the signals registered with loop.add_signal_handler
    task,      \* the tasks of the event loop: task name -> state
    ready,     \* the event loop's FIFO of tasks created and not yet run
    nevents,   \* events delivered to the loop: timers, lines, signals
    nread,     \* number of reads click_handler has got back from stdin
    nfaults,   \* reads of a data source that failed
    cb,        \* the latest callback the event loop ran
    line,      \* the line that callback read from stdin (click_handler's `line`)
    calls,     \* the calls that callback made, in order
    frame,     \* the callback the loop is inside of, step by step (StepSpec)
    pending,   \* signals that arrived and whose handler has not run (StepSpec)
    src,       \* what each block's data source currently returns (UpdateSpec)
    clock,     \* the wall clock, in seconds (ClockSpec)
    dt         \* BDateTime.out_loop: its position, self.now.second, its sleep (ClockSpec)

\* the variables of the finer-grained and single-function specifications;
\* Spec, which takes every callback as one step, leaves them alone
aux == <<frame, pending, src, clock, dt>>

vars == <<mainpc, out, blocks, handlers, task, ready, nevents, nread, nfaults, cb, line, calls,
          frame, pending, src, clock, dt>>

----------------------------------------------------------------------------
(* Bounds of the model. *)

\* events (timer expiries, monitor lines, stdin reads, signals) the
\* environment delivers to the running loop
MaxEvents == 1
\* reads of a data source (a command, a file) that fail or return
\* unexpected content
MaxFaults == 1

----------------------------------------------------------------------------
(* Text: a line is a sequence of tokens.  A token is a punctuation mark or *)
(* the JSON text of one value (kept as the value it encodes).              *)

P(s) == [t |-> "punct", kind |-> s, v |-> <<>>]
J(kind, v) == [t |-> "json", kind |-> kind, v |-> v]
NL == P("\n")

IsP(tok, s) == tok.t = "punct" /\ tok.kind = s

----------------------------------------------------------------------------
(* Block and its subclasses. *)

DEFAULTS ==
    [full_text |-> "", border |-> "#282828", border_top |-> 0,
     border_bottom |-> 2, border_left |-> 0, border_right |-> 0,
     min_width |-> 50, align |-> "center"]

\* signal.SIGRTMIN on Linux
SIGRTMIN == 34
SigRefresh == SIGRTMIN + 15

\* id(self): the address of the k-th block object.  All blocks stay alive
\* (the registry holds them), so their addresses differ; they are not
\* allocated in increasing order.
Addresses == <<143, 140, 145, 141, 144, 142>>

\* a variant of id that takes the address of an object all blocks share
\* (such as id(self.statusline))
id_Shared(k) == Addresses[1]

id(k) == Addresses[k]

\* str(n)
str(n) == ToString(n)

\* Block.__init__: DEFAULTS, overridden by kwargs, then name and instance
BlockInit(cls, kwargs, k) ==
    [name |-> cls, instance |-> str(id(k))] @@ kwargs @@ DEFAULTS

\* the kwargs main passes to add_block: none
NoKwargs == [k \in {} |-> ""]

\* the classes whose out_once reads an external command or file that can fail
\* or return unexpected content; BDateTime reads only the clock
ReadsExternal(cls) == cls # "BDateTime"

\* what a block's data source returns to one out_once: a value, or a failure
\* (a command exiting non-zero under check=True, missing fields, an unknown
\* key).  One well-formed value stands for all: the properties are about
\* whether a block updates and renders, not about what it displays.
DataValues == {1}
Readings == {[ok |-> FALSE, val |-> 0]} \cup {[ok |-> TRUE, val |-> v] : v \in DataValues}

\* the f-strings of the out_once methods
FullText(cls, v) ==
    CASE cls = "BDateTime" -> " 2026/11/01  10:0" \o str(v)
      [] cls = "BDisk"     -> " " \o str(v) \o "iB"
      [] cls = "BRAM"      -> " " \o str(v) \o "B"
      [] cls = "BCPU"      -> " " \o str(v)
      [] cls = "BNetwork"  -> " eth" \o str(v) \o " Wired"
      [] cls = "BVolume"   -> " " \o str(v) \o "%"

----------------------------------------------------------------------------
(* The insertion-ordered dict self.blocks. *)

Keys(d) == {d[i].key : i \in 1..Len(d)}
IndexOf(d, k) == CHOOSE i \in 1..Len(d) : d[i].key = k
Get(d, k) == d[IndexOf(d, k)].val
\* d[k] = v: replaces the value of an existing key in place, else appends
Put(d, k, v) ==
    IF k \in Keys(d)
    THEN [d EXCEPT ![IndexOf(d, k)] = [key |-> k, val |-> v]]
    ELSE Append(d, [key |-> k, val |-> v])
\* list(d.values())
Values(d) == [i \in 1..Len(d) |-> d[i].val]

----------------------------------------------------------------------------
(* The run of one callback: the registry and the output it has reached,    *)
(* the calls it has made, whether an exception is propagating, and how     *)
(* many of its reads of a data source failed.                              *)

Run0 == [blocks |-> blocks, out |-> out, calls |-> <<>>, exc |-> FALSE, faults |-> 0]

Call(m, op, arg) == [m EXCEPT !.calls = Append(@, [op |-> op, arg |-> arg])]
Raise(m) == [m EXCEPT !.exc = TRUE]

\* json.dumps of a list of dicts
RECURSIVE JoinItems(_)
JoinItems(vs) ==
    IF Len(vs) = 0 THEN <<>>
    ELSE IF Len(vs) = 1 THEN <<J("object", vs[1])>>
    ELSE <<J("object", vs[1]), P(","), P(" ")>> \o JoinItems(Tail(vs))
JsonDumpsList(vs) == <<P("[")>> \o JoinItems(vs) \o <<P("]")>>

\* a variant of PrintLine that forgets the separator: print(json.dumps(...))
PrintLine_NoSeparator(d) == JsonDumpsList(Values(d))

\* StatusLine.print: print(',', json.dumps(list(self.blocks.values())))
PrintLine(d) == <<P(","), P(" ")>> \o JsonDumpsList(Values(d))
StatusLinePrint(m) ==
    [Call(m, "print", "") EXCEPT !.out = Append(@, PrintLine(m.blocks))]

\* a variant of out_once that appends to the displayed text instead of
\* replacing it: self['full_text'] += ...
out_once_Accumulate(m, k, r) ==
    LET b  == Get(m.blocks, k)
        m1 == Call(m, "out_once", k)
    IN  IF ReadsExternal(b.name) /\ ~r.ok
        THEN Raise([m1 EXCEPT !.faults = @ + 1])
        ELSE StatusLinePrint([m1 EXCEPT !.blocks =
                 Put(@, k, [b EXCEPT !.full_text = @ \o FullText(b.name, r.val)])])

\* a variant of out_once in which BVolume.out_once forgets self.statusline.print()
out_once_VolumeNoPrint(m, k, r) ==
    LET b  == Get(m.blocks, k)
        m1 == Call(m, "out_once", k)
        m2 == [m1 EXCEPT !.blocks =
                  Put(@, k, [b EXCEPT !.full_text = FullText(b.name, r.val)])]
    IN  IF ReadsExternal(b.name) /\ ~r.ok
        THEN Raise([m1 EXCEPT !.faults = @ + 1])
        ELSE IF b.name = "BVolume" THEN m2 ELSE StatusLinePrint(m2)

\* a variant of out_once that also restyles the block it updates
out_once_Restyle(m, k, r) ==
    LET b  == Get(m.blocks, k)
        m1 == Call(m, "out_once", k)
    IN  IF ReadsExternal(b.name) /\ ~r.ok
        THEN Raise([m1 EXCEPT !.faults = @ + 1])
        ELSE StatusLinePrint([m1 EXCEPT !.blocks =
                 Put(@, k, [b EXCEPT !.full_text = FullText(b.name, r.val),
                                     !.border = "#ff0000"])])

\* <class>.out_once of the block under key k, its data source returning r
out_once(m, k, r) ==
    LET b  == Get(m.blocks, k)
        m1 == Call(m, "out_once", k)
    IN  IF ReadsExternal(b.name) /\ ~r.ok
        THEN Raise([m1 EXCEPT !.faults = @ + 1])
        ELSE StatusLinePrint([m1 EXCEPT !.blocks =
                 Put(@, k, [b EXCEPT !.full_text = FullText(b.name, r.val)])])

\* event['button']: KeyError when the event has no such key
HasKey(obj, f) == f \in DOMAIN obj

\* <class>.on_click(event) of the block under key k
on_click(m, k, event, r) ==
    LET cls == Get(m.blocks, k).name
        m1  == Call(m, "on_click", k)
    IN  CASE cls = "BNetwork" ->
               IF ~HasKey(event, "button") THEN Raise(m1)
               ELSE IF event.button = 1 THEN Call(m1, "run", "nm-connection-editor")
               ELSE m1
          [] cls = "BVolume" ->
               IF ~HasKey(event, "button") THEN Raise(m1)
               ELSE LET m2 == CASE event.button = 1 -> Call(m1, "run", "pamixer --toggle-mute")
                                [] event.button = 3 -> Call(m1, "run", "pavucontrol")
                                [] event.button = 4 -> Call(m1, "run", "pamixer --increase 5")
                                [] event.button = 5 -> Call(m1, "run", "pamixer --decrease 5")
                                [] OTHER -> m1
                    IN  out_once(m2, k, r)
          [] OTHER -> out_once(m1, k, r)

\* <class>.on_signal(sig) of the block under key k
on_signal(m, k, sig, r) ==
    LET cls == Get(m.blocks, k).name
        m1  == Call(m, "on_signal", k)
    IN  IF cls = "BVolume" /\ sig = SigRefresh THEN out_once(m1, k, r) ELSE m1

\* StatusLine.signal_handler: for block in self.blocks.values(): block.on_signal(sig)
\* (from the i-th block on; an exception ends the loop)
RECURSIVE SignalFrom(_, _, _, _)
SignalFrom(m, i, sig, r) ==
    IF m.exc \/ i > Len(m.blocks) THEN m
    ELSE SignalFrom(on_signal(m, m.blocks[i].key, sig, r), i + 1, sig, r)
signal_handler(m, sig, r) == SignalFrom(m, 1, sig, r)

----------------------------------------------------------------------------
(* click_handler's treatment of one line. *)

\* line.startswith('[')
StartsWithOpen(l) == Len(l) > 0 /\ IsP(l[1], "[")

\* a variant of LStripComma that leaves the line as it is
LStripComma_Keep(l) == l

\* line.lstrip(',')
RECURSIVE LStripComma(_)
LStripComma(l) ==
    IF Len(l) > 0 /\ IsP(l[1], ",") THEN LStripComma(Tail(l)) ELSE l

\* json.loads: surrounding whitespace is skipped; the text must be exactly one
\* JSON value.  [ok, kind, v]
IsSpace(tok) == IsP(tok, "\n") \/ IsP(tok, " ")
RECURSIVE StripSpace(_)
StripSpace(l) ==
    IF Len(l) > 0 /\ IsSpace(l[1]) THEN StripSpace(Tail(l))
    ELSE IF Len(l) > 0 /\ IsSpace(l[Len(l)]) THEN StripSpace(SubSeq(l, 1, Len(l) - 1))
    ELSE l
JsonLoads(l) ==
    LET s == StripSpace(l)
    IN  IF Len(s) = 1 /\ s[1].t = "json"
        THEN [ok |-> TRUE, kind |-> s[1].kind, v |-> s[1].v]
        ELSE [ok |-> FALSE, kind |-> "", v |-> <<>>]

\* a variant of HandleLine that catches the lookup miss and re-renders
HandleLine_RenderOnMiss(m, l, r) ==
    IF StartsWithOpen(l) THEN m
    ELSE LET ev == JsonLoads(LStripComma(l))
         IN  IF ~ev.ok THEN Raise(m)
             ELSE IF ev.kind # "object" THEN Raise(m)
             ELSE IF ~HasKey(ev.v, "instance") THEN Raise(m)
             ELSE IF ev.v.instance \notin Keys(m.blocks) THEN StatusLinePrint(m)
             ELSE on_click(m, ev.v.instance, ev.v, r)

\* the body of click_handler's loop for a non-empty line
HandleLine(m, l, r) ==
    IF StartsWithOpen(l) THEN m
    ELSE LET ev == JsonLoads(LStripComma(l))
         IN  IF ~ev.ok THEN Raise(m)                               \* JSONDecodeError
             ELSE IF ev.kind # "object" THEN Raise(m)              \* TypeError
             ELSE IF ~HasKey(ev.v, "instance") THEN Raise(m)       \* KeyError
             ELSE IF ev.v.instance \notin Keys(m.blocks) THEN Raise(m)  \* KeyError
             ELSE on_click(m, ev.v.instance, ev.v, r)

----------------------------------------------------------------------------
(* StatusLine.main, statement by statement. *)

\* a variant of Main that opens the array before it prints the header
Main_OpenFirst ==
    << [op |-> "print",              arg |-> "["],
       [op |-> "print",              arg |-> "header"],
       [op |-> "print",              arg |-> "[]"],
       [op |-> "create_task",        arg |-> "click_handler"],
       [op |-> "add_signal_handler", arg |-> "SIGRTMIN+15"],
       [op |-> "add_block",          arg |-> "BCPU"],
       [op |-> "add_block",          arg |-> "BRAM"],
       [op |-> "add_block",          arg |-> "BDisk"],
       [op |-> "add_block",          arg |-> "BVolume"],
       [op |-> "add_block",          arg |-> "BNetwork"],
       [op |-> "add_block",          arg |-> "BDateTime"],
       [op |-> "run_forever",        arg |-> ""] >>

Main ==
    << [op |-> "print",              arg |-> "header"],
       [op |-> "print",              arg |-> "["],
       [op |-> "print",              arg |-> "[]"],
       [op |-> "create_task",        arg |-> "click_handler"],
       [op |-> "add_signal_handler", arg |-> "SIGRTMIN+15"],
       [op |-> "add_block",          arg |-> "BCPU"],
       [op |-> "add_block",          arg |-> "BRAM"],
       [op |-> "add_block",          arg |-> "BDisk"],
       [op |-> "add_block",          arg |-> "BVolume"],
       [op |-> "add_block",          arg |-> "BNetwork"],
       [op |-> "add_block",          arg |-> "BDateTime"],
       [op |-> "run_forever",        arg |-> ""] >>

\* what the three print statements of the preamble write
PreambleLine(arg) ==
    CASE arg = "header" -> <<J("object", [version |-> 1, click_events |-> TRUE])>>
      [] arg = "["      -> <<P("[")>>
      [] arg = "[]"     -> <<P("["), P("]")>>
Preamble == <<PreambleLine("header"), PreambleLine("["), PreambleLine("[]")>>

At(op) == Main[mainpc].op = op

\* the event loop runs callbacks only inside run_forever
Running == At("run_forever")

\* the values of the variables that Spec does not use
NoFrame == [who |-> "", todo |-> <<>>, done |-> <<>>, cmd |-> "",
            calls |-> <<>>, line |-> <<>>, next |-> ""]
NoSource == [k \in {} |-> 0]
NoLoop == [pc |-> "", read |-> 0, second |-> 0, started |-> 0, sleep |-> 0,
           wake |-> 0, updates |-> 0]

Init ==
    /\ mainpc = 1
    /\ out = <<>>
    /\ blocks = <<>>
    /\ handlers = {}
    /\ task = [t \in {} |-> ""]
    /\ ready = <<>>
    /\ nevents = 0
    /\ nread = 0
    /\ nfaults = 0
    /\ cb = "main"
    /\ line = <<>>
    /\ calls = <<>>
    /\ frame = NoFrame
    /\ pending = {}
    /\ src = NoSource
    /\ clock = 0
    /\ dt = NoLoop

MainPrint ==
    /\ At("print")
    /\ out' = Append(out, PreambleLine(Main[mainpc].arg))
    /\ mainpc' = mainpc + 1
    /\ UNCHANGED <<blocks, handlers, task, ready, aux, nevents, nread, nfaults, cb, line, calls>>

\* self.loop.create_task(self.click_handler())
MainCreateTask ==
    /\ At("create_task")
    /\ task' = task @@ (Main[mainpc].arg :> "ready")
    /\ ready' = Append(ready, Main[mainpc].arg)
    /\ mainpc' = mainpc + 1
    /\ UNCHANGED <<out, blocks, handlers, aux, nevents, nread, nfaults, cb, line, calls>>

\* StatusLine.add_signal_handler
MainAddSignalHandler ==
    /\ At("add_signal_handler")
    /\ handlers' = handlers \cup {SigRefresh}
    /\ mainpc' = mainpc + 1
    /\ UNCHANGED <<out, blocks, task, ready, aux, nevents, nread, nfaults, cb, line, calls>>

\* a variant of add_block that also shows the new block at once:
\* block.out_once() at registration
add_block_eager(cls, kwargs) ==
    LET block == BlockInit(cls, kwargs, Len(blocks) + 1)
        m     == out_once([Run0 EXCEPT !.blocks = Put(blocks, block.instance, block)],
                          block.instance, [ok |-> TRUE, val |-> 1])
    IN  /\ blocks' = m.blocks
        /\ task' = task @@ (block.instance :> "ready")
        /\ ready' = Append(ready, block.instance)
        /\ out' = m.out
        /\ calls' = m.calls

\* StatusLine.add_block: construct the block, register it under its instance,
\* create its out_loop task (which first runs inside run_forever)
add_block(cls, kwargs) ==
    LET block == BlockInit(cls, kwargs, Len(blocks) + 1)
    IN  /\ blocks' = Put(blocks, block.instance, block)
        /\ task' = task @@ (block.instance :> "ready")
        /\ ready' = Append(ready, block.instance)
        /\ UNCHANGED <<out, calls>>

MainAddBlock ==
    /\ At("add_block")
    /\ add_block(Main[mainpc].arg, NoKwargs)
    /\ mainpc' = mainpc + 1
    /\ UNCHANGED <<handlers, aux, nevents, nread, nfaults, cb, line>>

----------------------------------------------------------------------------
(* The callbacks of the event loop.  Tasks made by create_task first run   *)
(* in creation order (the loop's ready queue is FIFO); after that a task   *)
(* or handler runs when its event arrives: a timer, a line, a signal.      *)

\* task t is the next of the ready queue
First(t) == Running /\ ready # <<>> /\ Head(ready) = t
\* the loop waits for events, and the environment may deliver one more
Idle == Running /\ ready = <<>>
Event == Idle /\ nevents < MaxEvents

ClassOf(k) == Get(blocks, k).name

\* a callback's effect on the registry, the output and the record of the
\* latest callback (the environment has a budget of failing reads)
Commit(name, l, m) ==
    /\ nfaults + m.faults <= MaxFaults
    /\ nfaults' = nfaults + m.faults
    /\ blocks' = m.blocks
    /\ out' = m.out
    /\ cb' = name
    /\ line' = l
    /\ calls' = m.calls

\* the lines stdin can deliver: the i3bar click-event stream, and what a broken
\* or stale peer may send
StaleId == "139"
Buttons == 1..5
\* only BNetwork.on_click and BVolume.on_click read event['button']; for the
\* other classes, and for an instance that is not registered, one button
\* stands for all
ButtonsFor(cls) == IF cls \in {"BNetwork", "BVolume"} THEN Buttons ELSE {1}
Events ==
    UNION {{[name |-> ClassOf(k), instance |-> k, button |-> b] :
                b \in ButtonsFor(ClassOf(k))} : k \in Keys(blocks)}
    \cup {[name |-> "BVolume", instance |-> StaleId, button |-> 1]}
EventLines ==
    {pre \o <<J("object", e), NL>> : pre \in {<<>>, <<P(",")>>}, e \in Events}
MalformedLines == {<<P("{"), NL>>, <<NL>>}
EOF == <<>>
StdinLines ==
    {EOF, <<P("["), NL>>, <<J("number", 7), NL>>,
     <<J("object", [name |-> "BCPU", button |-> 1]), NL>>}
    \cup MalformedLines \cup EventLines

\* click_handler up to its first await of run_in_executor(readline)
RouterStart ==
    /\ First("click_handler")
    /\ task' = [task EXCEPT !["click_handler"] = "stdin"]
    /\ ready' = Tail(ready)
    /\ Commit("click_handler", <<>>, Run0)
    /\ UNCHANGED <<aux, mainpc, handlers, nevents, nread>>

\* click_handler from the return of readline to the next await (or its end)
RouterLine(l, r) ==
    /\ Event
    /\ "click_handler" \in DOMAIN task /\ task["click_handler"] = "stdin"
    /\ nevents' = nevents + 1
    /\ nread' = nread + 1
    /\ LET m == IF l = EOF THEN Run0 ELSE HandleLine(Run0, l, r)
       IN  /\ task' = [task EXCEPT !["click_handler"] =
                          IF l = EOF THEN "done"
                          ELSE IF m.exc THEN "failed" ELSE "stdin"]
           /\ Commit("click_handler", l, m)
    /\ UNCHANGED <<aux, mainpc, handlers, ready>>

\* one iteration of out_loop of BCPU, BRAM, BDisk, BVolume, BDateTime:
\* self.out_once(); await asyncio.sleep(...).  The first runs from the ready
\* queue, the later ones when the sleep's timer expires.
LoopIter(k, r) ==
    /\ k \in Keys(blocks) /\ ClassOf(k) # "BNetwork"
    /\ \/ /\ First(k)
          /\ ready' = Tail(ready)
          /\ UNCHANGED nevents
       \/ /\ Event /\ task[k] = "sleep"
          /\ nevents' = nevents + 1
          /\ UNCHANGED ready
    /\ LET m == out_once(Run0, k, r)
       IN  /\ task' = [task EXCEPT ![k] = IF m.exc THEN "failed" ELSE "sleep"]
           /\ Commit(k, <<>>, m)
    /\ UNCHANGED <<aux, mainpc, handlers, nread>>

\* BNetwork.out_loop: out_once, then await create_subprocess_shell
NetStart(k, r) ==
    /\ k \in Keys(blocks) /\ ClassOf(k) = "BNetwork"
    /\ First(k)
    /\ ready' = Tail(ready)
    /\ LET m == out_once(Run0, k, r)
       IN  /\ task' = [task EXCEPT ![k] = IF m.exc THEN "failed" ELSE "spawn"]
           /\ Commit(k, <<>>, m)
    /\ UNCHANGED <<aux, mainpc, handlers, nevents, nread>>

\* BNetwork.out_loop: the monitor is created; await its first line
NetSpawned(k) ==
    /\ k \in Keys(blocks) /\ ClassOf(k) = "BNetwork"
    /\ Idle /\ task[k] = "spawn"
    /\ task' = [task EXCEPT ![k] = "monitor"]
    /\ Commit(k, <<>>, Run0)
    /\ UNCHANGED <<aux, mainpc, handlers, ready, nevents, nread>>

\* BNetwork.out_loop: the monitor wrote a line
NetMonitorLine(k, r) ==
    /\ k \in Keys(blocks) /\ ClassOf(k) = "BNetwork"
    /\ Event /\ task[k] = "monitor"
    /\ nevents' = nevents + 1
    /\ LET m == out_once(Run0, k, r)
       IN  /\ task' = [task EXCEPT ![k] = IF m.exc THEN "failed" ELSE "monitor"]
           /\ Commit(k, <<>>, m)
    /\ UNCHANGED <<aux, mainpc, handlers, ready, nread>>

\* BNetwork.out_loop: the monitor's stdout reached end of file; the loop ends
NetMonitorEOF(k) ==
    /\ k \in Keys(blocks) /\ ClassOf(k) = "BNetwork"
    /\ Event /\ task[k] = "monitor"
    /\ nevents' = nevents + 1
    /\ task' = [task EXCEPT ![k] = "done"]
    /\ Commit(k, <<>>, Run0)
    /\ UNCHANGED <<aux, mainpc, handlers, ready, nread>>

\* delivery of a registered signal: the loop calls signal_handler(sig); an
\* exception of the handler is reported by the loop, which keeps running
SignalDelivery(sig, r) ==
    /\ Event
    /\ sig \in handlers
    /\ nevents' = nevents + 1
    /\ Commit("signal_handler", <<>>, signal_handler(Run0, sig, r))
    /\ UNCHANGED <<aux, mainpc, handlers, task, ready, nread>>

Next ==
    \/ MainPrint
    \/ MainCreateTask
    \/ MainAddSignalHandler
    \/ MainAddBlock
    \/ RouterStart
    \/ \E l \in StdinLines, r \in Readings : RouterLine(l, r)
    \/ \E k \in Keys(blocks), r \in Readings : LoopIter(k, r)
    \/ \E k \in Keys(blocks), r \in Readings : NetStart(k, r)
    \/ \E k \in Keys(blocks) : NetSpawned(k)
    \/ \E k \in Keys(blocks), r \in Readings : NetMonitorLine(k, r)
    \/ \E k \in Keys(blocks) : NetMonitorEOF(k)
    \/ \E sig \in handlers, r \in Readings : SignalDelivery(sig, r)

Spec == Init /\ [][Next]_vars

----------------------------------------------------------------------------
(* Vocabulary of the properties. *)

\* the configured blocks, in the order main registers them
Config == <<"BCPU", "BRAM", "BDisk", "BVolume", "BNetwork", "BDateTime">>

\* the calls of the latest callback that are calls of op
CallsOf(op) == SelectSeq(calls, LAMBDA c : c.op = op)
CallsOfNext(op) == SelectSeq(calls', LAMBDA c : c.op = op)

\* the latest callback is click_handler's treatment of a line it read
ReadLine == cb = "click_handler" /\ nread > 0 /\ line # EOF

\* the event a line holds, when it holds one
EventOf(l) == JsonLoads(LStripComma(l)).v
HoldsEvent(l) ==
    /\ l # EOF /\ ~StartsWithOpen(l)
    /\ JsonLoads(LStripComma(l)).ok
    /\ JsonLoads(LStripComma(l)).kind = "object"
    /\ HasKey(EventOf(l), "instance")

\* a line that does not start with '[' and is not valid JSON after lstrip(',')
IsMalformed(l) == l # EOF /\ ~StartsWithOpen(l) /\ ~JsonLoads(LStripComma(l)).ok
\* a well-formed click event whose instance is not / is a key of the registry
IsUnknownClick(l) == HoldsEvent(l) /\ EventOf(l).instance \notin Keys(blocks)
IsKnownClick(l) == HoldsEvent(l) /\ EventOf(l).instance \in Keys(blocks)

\* the render lines of the output: those after the preamble
RenderLines == SubSeq(out, Len(Preamble) + 1, Len(out))

\* the JSON objects of a line, in order
ObjectsOf(l) ==
    LET js == SelectSeq(l, LAMBDA tok : tok.t = "json")
    IN  [i \in 1..Len(js) |-> js[i].v]

\* the latest callback ended by an exception out of out_once: its last call
\* is an out_once that did not reach print
Faulted == calls # <<>> /\ calls[Len(calls)].op = "out_once"

----------------------------------------------------------------------------
(* Properties. *)

\* C1: after click_handler has read a malformed line, the router has not
\* terminated: it awaits the next line of stdin.
C1_MalformedLineKeepsRouter ==
    (ReadLine /\ IsMalformed(line)) => task["click_handler"] = "stdin"

\* C2: after click_handler has read a well-formed click event whose instance
\* is not registered, the router is alive: it awaits the next line of stdin.
C2_UnknownIdKeepsRouter ==
    (ReadLine /\ IsUnknownClick(line)) => task["click_handler"] = "stdin"

\* C3: processing a click-event line whose instance id is not registered
\* invokes no block's on_click, changes no block's payload and appends no
\* line to the output.
C3_UnknownIdNoEffect ==
    [][ (cb' = "click_handler" /\ nread' = nread + 1 /\ IsUnknownClick(line'))
          => /\ CallsOfNext("on_click") = <<>>
             /\ blocks' = blocks
             /\ out' = out ]_vars

\* C3 witness: the router has just processed a click for an unregistered id
C3_Witness == ReadLine /\ IsUnknownClick(line)

\* C4: when click_handler has processed a click event for a registered
\* instance, whatever the block's type and the button, that block's on_click
\* was invoked exactly once and, within the same step (before the next
\* read), its out_once ran and one render line was printed.  (Stated for
\* runs in which no data source failed.)
C4_ClickUpdatesAndRenders ==
    (ReadLine /\ IsKnownClick(line) /\ nfaults = 0) =>
        LET k == EventOf(line).instance
        IN  /\ CallsOf("on_click") = <<[op |-> "on_click", arg |-> k]>>
            /\ CallsOf("out_once") = <<[op |-> "out_once", arg |-> k]>>
            /\ Len(CallsOf("print")) = 1

\* C5: a data-source failure inside out_once does not propagate past it: the
\* task that ran the failing update (a block's out_loop, or click_handler
\* through on_click) has not ended.
C5_FailureStaysInUpdate ==
    (Faulted /\ cb \in DOMAIN task) => task[cb] # "failed"

\* C6: each call of StatusLine.print appends exactly one line to the output
\* (and nothing else writes once the loop runs), and every line after the
\* preamble is a comma followed by one JSON array of objects, each carrying
\* full_text, name and instance.
IsRenderLine(l) ==
    LET s    == SelectSeq(l, LAMBDA tok : ~IsSpace(tok))
        body == SubSeq(s, 3, Len(s) - 1)
    IN  /\ Len(s) >= 3
        /\ IsP(s[1], ",") /\ IsP(s[2], "[") /\ IsP(s[Len(s)], "]")
        /\ Len(body) = 0 \/ Len(body) % 2 = 1
        /\ \A i \in 1..Len(body) :
               IF i % 2 = 1
               THEN /\ body[i].t = "json" /\ body[i].kind = "object"
                    /\ {"full_text", "name", "instance"} \subseteq DOMAIN body[i].v
               ELSE IsP(body[i], ",")
C6_OneWellFormedLinePerPrint ==
    /\ [](\A i \in 1..Len(RenderLines) : IsRenderLine(RenderLines[i]))
    /\ [][ Running => /\ Len(out') = Len(out) + Len(CallsOfNext("print"))
                      /\ SubSeq(out', 1, Len(out)) = out ]_vars

\* C6 witness: a callback has printed and a render line is on the output
C6_Witness == Len(RenderLines) > 0 /\ Len(CallsOf("print")) = 1

\* C7: the output begins with exactly the three preamble lines, in order:
\* the header object (version 1, click_events true), '[', '[]'; each is
\* written once and all three precede every render line.
ExpectedPreamble ==
    << <<J("object", [version |-> 1, click_events |-> TRUE])>>,
       <<P("[")>>,
       <<P("["), P("]")>> >>
C7_PreambleFirstOnce ==
    /\ \A i \in 1..Len(out) :
           IF i <= 3 THEN out[i] = ExpectedPreamble[i]
           ELSE /\ \A j \in 1..3 : out[i] # ExpectedPreamble[j]
                /\ IsP(out[i][1], ",")
    /\ (mainpc > 3 => Len(out) >= 3)

\* C7 witness: render lines follow the preamble
C7_Witness == Len(out) > 3 /\ Running

\* C8: with no input line received, every registered block performs its
\* first update and emits a render line.  A block whose out_loop has ended
\* with an exception is never updated by its loop again, so it must have
\* rendered by then.
C8_EveryBlockRendersFirst ==
    \A k \in Keys(blocks) :
        (nread = 0 /\ task[k] = "failed") => Get(blocks, k).full_text # ""

\* C9: on delivery of SIGRTMIN+15, signal_handler has invoked on_signal once
\* on every registered block, in registration order, and every signal-aware
\* block (BVolume) has run out_once and emitted a render within that step.
C9_SignalReachesEveryBlock ==
    cb = "signal_handler" =>
        /\ [i \in 1..Len(CallsOf("on_signal")) |-> CallsOf("on_signal")[i].arg]
               = [i \in 1..Len(blocks) |-> blocks[i].key]
        /\ \A k \in Keys(blocks) :
               ClassOf(k) = "BVolume" =>
                   /\ CallsOf("out_once") = <<[op |-> "out_once", arg |-> k]>>
                   /\ Len(CallsOf("print")) = 1

\* C10: every render line holds exactly one object per configured block, in
\* registration order (BCPU, BRAM, BDisk, BVolume, BNetwork, BDateTime), and
\* every callback of the loop (render, click dispatch, signal broadcast)
\* finds the registry complete.
NamesOf(objs) == [i \in 1..Len(objs) |-> objs[i].name]
C10_RegistryCompleteAndOrdered ==
    /\ \A i \in 1..Len(RenderLines) : NamesOf(ObjectsOf(RenderLines[i])) = Config
    /\ (cb # "main" => NamesOf(Values(blocks)) = Config)

\* C10 witness: the router has dispatched a click and a render line is out
C10_Witness == Len(RenderLines) > 0 /\ ReadLine /\ IsKnownClick(line)

\* C12: each registry key equals the instance field of the block stored
\* under it, no two registered blocks share an instance id, and the registry
\* holds exactly one entry per add_block call made so far.
AddBlockCalls == Cardinality({j \in 1..(mainpc - 1) : Main[j].op = "add_block"})
C12_RegistryOwnsIds ==
    /\ \A i \in 1..Len(blocks) : blocks[i].key = blocks[i].val.instance
    /\ \A i, j \in 1..Len(blocks) :
           i # j => /\ blocks[i].key # blocks[j].key
                    /\ blocks[i].val.instance # blocks[j].val.instance
    /\ Len(blocks) = AddBlockCalls

\* C12 witness: all six blocks are registered and a block's loop has updated it
C12_Witness ==
    /\ Len(blocks) = 6 /\ cb \in Keys(blocks)
    /\ Get(blocks, cb).full_text # ""

\* C13: a line that is the array-open token '[' is skipped without dispatch
\* or output, and a click event for a registered id that carries the leading
\* comma has exactly the effect of the same event line without the comma:
\* the same block's on_click, with the same event.
IsCommaClick(l) ==
    /\ Len(l) = 3 /\ IsP(l[1], ",")
    /\ l[2].t = "json" /\ l[2].kind = "object"
    /\ HasKey(l[2].v, "instance") /\ l[2].v.instance \in Keys(blocks)
C13_OpenSkippedCommaStripped ==
    /\ [][ (cb' = "click_handler" /\ nread' = nread + 1 /\ line' = <<P("["), NL>>)
             => /\ calls' = <<>> /\ out' = out /\ blocks' = blocks
                /\ task'["click_handler"] = "stdin" ]_vars
    /\ [][ (cb' = "click_handler" /\ nread' = nread + 1 /\ IsCommaClick(line'))
             => /\ Len(calls') > 0
                /\ calls'[1] = [op |-> "on_click", arg |-> line'[2].v.instance]
                /\ \E r \in Readings :
                       LET m == HandleLine(Run0, Tail(line'), r)
                       IN  /\ m.calls = calls'
                           /\ m.blocks = blocks'
                           /\ m.out = out' ]_vars

\* C13 witness: a comma-prefixed click for a registered id has been dispatched
C13_Witness ==
    /\ ReadLine /\ IsCommaClick(line)
    /\ CallsOf("on_click") # <<>>

\* C18: once a render has been emitted, the last line of the output is the
\* serialization of the current payloads of all registered blocks.
C18_LastLineIsCurrent ==
    Len(RenderLines) > 0 => ObjectsOf(out[Len(out)]) = Values(blocks)

\* C18 witness: a signal made BVolume update, and the update was rendered
C18_Witness ==
    /\ cb = "signal_handler" /\ Len(CallsOf("print")) = 1
    /\ Len(RenderLines) > 1

\* C19: after registration, a step of block b (its loop, a click on it, a
\* signal it handles) changes at most b's full_text: no other block's
\* payload, and no name, instance or style field of any block.
Owners ==
    IF cb' \in Keys(blocks) THEN {cb'}
    ELSE IF cb' = "click_handler" /\ HoldsEvent(line') THEN {EventOf(line').instance}
    ELSE IF cb' = "signal_handler" THEN {k \in Keys(blocks) : ClassOf(k) = "BVolume"}
    ELSE {}
C19_OnlyOwnFullText ==
    [][ Running =>
          /\ Len(blocks') = Len(blocks)
          /\ \A i \in 1..Len(blocks) :
                 /\ blocks'[i].key = blocks[i].key
                 /\ [blocks'[i].val EXCEPT !.full_text = ""]
                        = [blocks[i].val EXCEPT !.full_text = ""]
                 /\ blocks'[i].val.full_text # blocks[i].val.full_text
                        => blocks[i].key \in Owners ]_vars

\* C19 witness: a click has changed the payload of the block it names
C19_Witness ==
    /\ ReadLine /\ IsKnownClick(line)
    /\ Len(CallsOf("print")) = 1
    /\ \E k \in Keys(blocks) : Get(blocks, k).full_text = ""

----------------------------------------------------------------------------
(* out_once against a data source that has a state of its own.  Here the   *)
(* registry is the one main builds, each block's data source holds a       *)
(* reading (src) until the environment changes it, and out_once of a block *)
(* is called with the reading its source holds.                            *)

MaxSteps == 3

\* the registry after the six add_block calls of main
RECURSIVE RegistryOf(_)
RegistryOf(n) ==
    IF n = 0 THEN <<>>
    ELSE LET d     == RegistryOf(n - 1)
             block == BlockInit(Config[n], NoKwargs, Len(d) + 1)
         IN  Put(d, block.instance, block)
Registered == RegistryOf(Len(Config))

\* the state when main reaches run_forever, before any task has run
AfterMain ==
    /\ mainpc = Len(Main)
    /\ out = Preamble
    /\ blocks = Registered
    /\ handlers = {SigRefresh}
    /\ nevents = 0
    /\ nread = 0
    /\ nfaults = 0
    /\ cb = "main"
    /\ line = <<>>
    /\ calls = <<>>

\* what a data source can hold: a value, or a state in which reading it fails
SourceValues == {1, 2}
SourceReadings ==
    {[ok |-> FALSE, val |-> 0]} \cup {[ok |-> TRUE, val |-> v] : v \in SourceValues}

UpdateInit ==
    /\ AfterMain
    /\ task = [t \in {} |-> ""]
    /\ ready = <<>>
    /\ frame = NoFrame
    /\ pending = {}
    /\ src = [k \in Keys(Registered) |-> [ok |-> TRUE, val |-> 1]]
    /\ clock = 0
    /\ dt = NoLoop

\* block k's out_once is called; it reads what its source holds
UpdateOnce(k) ==
    /\ nevents < MaxSteps
    /\ nevents' = nevents + 1
    /\ LET m == out_once(Run0, k, src[k])
       IN  /\ blocks' = m.blocks
           /\ out' = m.out
           /\ calls' = m.calls
    /\ cb' = k
    /\ UNCHANGED <<mainpc, handlers, task, ready, nread, nfaults, line,
                   frame, pending, src, clock, dt>>

\* the environment changes what block k's source holds (the clock of
\* BDateTime can always be read)
SourceChange(k, v) ==
    /\ nevents < MaxSteps
    /\ nevents' = nevents + 1
    /\ v # src[k]
    /\ v.ok \/ ReadsExternal(ClassOf(k))
    /\ src' = [src EXCEPT ![k] = v]
    /\ cb' = "environment"
    /\ calls' = <<>>
    /\ UNCHANGED <<mainpc, out, blocks, handlers, task, ready, nread, nfaults,
                   line, frame, pending, clock, dt>>

UpdateNext ==
    \/ \E k \in Keys(blocks) : UpdateOnce(k)
    \/ \E k \in Keys(blocks), v \in SourceReadings : SourceChange(k, v)

UpdateSpec == UpdateInit /\ [][UpdateNext]_vars

\* C11: for every block type, out_once called twice in immediate succession
\* while the block's data source is unchanged leaves the block with the same
\* payload after the second call as after the first.
C11_UpdateIdempotent ==
    [][ (cb \in Keys(blocks) /\ cb' = cb /\ nevents' = nevents + 1 /\ src' = src)
          => Get(blocks', cb) = Get(blocks, cb) ]_vars

\* C11 witness: the only two steps taken were two successful out_once calls of
\* the same block, which rendered the same line twice
C11_Witness ==
    /\ nevents = 2 /\ cb \in Keys(blocks)
    /\ Get(blocks, cb).full_text # ""
    /\ Len(out) = Len(Preamble) + 2
    /\ out[Len(out)] = out[Len(out) - 1]

----------------------------------------------------------------------------
(* BDateTime.out_loop against a clock.  clock is the wall clock in whole   *)
(* seconds; dt follows the loop: the clock value out_once read, its second *)
(* (self.now.second), the clock when asyncio.sleep was called, the delay   *)
(* asked for and when its timer expires, and the out_once calls made since *)
(* the loop last woke.  Between datetime.now() and the call of sleep the   *)
(* code formats and prints; the clock may move on meanwhile.               *)

MaxDelay == 1
MaxWakes == 2

DateTimeKey == CHOOSE k \in Keys(Registered) : Get(Registered, k).name = "BDateTime"

\* self.now.second
Second(t) == t % 60
\* the minute digit shown by strftime('%H:%M')
MinuteShown(t) == (t \div 60) % 10

\* a variant of SleepFor that aims at the last second of the minute
SleepFor_LastSecond(second) == 59 - second

\* 60 - self.now.second
SleepFor(second) == 60 - second

ClockInit ==
    /\ AfterMain
    /\ task = (DateTimeKey :> "ready")
    /\ ready = <<DateTimeKey>>
    /\ frame = NoFrame
    /\ pending = {}
    /\ src = NoSource
    /\ clock \in 0..59
    /\ dt = [NoLoop EXCEPT !.pc = "out_once"]

\* self.out_once(): reads the clock, writes full_text, prints
DtUpdate ==
    /\ dt.pc = "out_once"
    /\ LET m == out_once(Run0, DateTimeKey, [ok |-> TRUE, val |-> MinuteShown(clock)])
       IN  /\ blocks' = m.blocks
           /\ out' = m.out
           /\ calls' = m.calls
    /\ cb' = DateTimeKey
    /\ dt' = [dt EXCEPT !.pc = "sleep", !.read = clock, !.second = Second(clock),
                        !.updates = @ + 1]
    /\ ready' = <<>>
    /\ task' = [task EXCEPT ![DateTimeKey] = "running"]
    /\ UNCHANGED <<mainpc, handlers, nevents, nread, nfaults, line,
                   frame, pending, src, clock>>

\* the clock moves on between datetime.now() and the call of asyncio.sleep
DtTick ==
    /\ dt.pc = "sleep"
    /\ clock - dt.read < MaxDelay
    /\ clock' = clock + 1
    /\ UNCHANGED <<mainpc, out, blocks, handlers, task, ready, nevents, nread,
                   nfaults, cb, line, calls, frame, pending, src, dt>>

\* await asyncio.sleep(60 - self.now.second)
DtSleep ==
    /\ dt.pc = "sleep"
    /\ dt' = [dt EXCEPT !.pc = "sleeping", !.started = clock,
                        !.sleep = SleepFor(dt.second),
                        !.wake = clock + SleepFor(dt.second)]
    /\ task' = [task EXCEPT ![DateTimeKey] = "sleep"]
    /\ UNCHANGED <<mainpc, out, blocks, handlers, ready, nevents, nread,
                   nfaults, cb, line, calls, frame, pending, src, clock>>

\* the timer of the sleep expires and the loop starts its next iteration
DtWake ==
    /\ dt.pc = "sleeping"
    /\ nevents < MaxWakes
    /\ nevents' = nevents + 1
    /\ clock' = IF dt.wake > clock THEN dt.wake ELSE clock
    /\ dt' = [dt EXCEPT !.pc = "out_once", !.updates = 0]
    /\ task' = [task EXCEPT ![DateTimeKey] = "running"]
    /\ UNCHANGED <<mainpc, out, blocks, handlers, ready, nread, nfaults, cb,
                   line, calls, frame, pending, src>>

ClockNext == DtUpdate \/ DtTick \/ DtSleep \/ DtWake

ClockSpec == ClockInit /\ [][ClockNext]_vars

\* the sleep in progress was asked for by an update that read second s
Sleeping == dt.pc = "sleeping"
TopOfNextMinute == 60 * ((dt.read \div 60) + 1)

\* C20 as stated: for every second s in 0..59 read by the update, the sleep
\* requested is 60 - s, which is in 1..60, and ends at second 0 of the
\* following minute; each iteration performs exactly one update before
\* sleeping.
C20_SleepEndsAtSecondZero ==
    Sleeping =>
        /\ dt.second \in 0..59
        /\ dt.sleep = 60 - dt.second
        /\ dt.sleep \in 1..60
        /\ dt.wake = TopOfNextMinute
        /\ Second(dt.wake) = 0
        /\ dt.updates = 1

\* C20 as the code has it: the sleep requested is 60 - s, in 1..60, and each
\* iteration performs exactly one update before sleeping; the sleep ends
\* 60 - s seconds after it was started, which is the top of the following
\* minute plus the time that passed between reading the clock and starting
\* the sleep: second 0 when the clock's second did not change in between.
C20_SleepSixtyMinusSecond ==
    /\ dt.pc = "out_once" => dt.updates = 0
    /\ dt.pc = "sleep" => dt.updates = 1
    /\ Sleeping =>
        /\ dt.second \in 0..59
        /\ dt.sleep = 60 - dt.second
        /\ dt.sleep \in 1..60
        /\ dt.wake = dt.started + dt.sleep
        /\ dt.wake = TopOfNextMinute + (dt.started - dt.read)
        /\ dt.started - dt.read \in 0..MaxDelay
        /\ dt.started = dt.read => Second(dt.wake) = 0
        /\ dt.updates = 1

\* C20 witness: the update read second 59 and the loop sleeps one second
C20_Witness ==
    /\ Sleeping /\ dt.second = 59 /\ dt.sleep = 1
    /\ dt.started = dt.read /\ Second(dt.wake) = 0

----------------------------------------------------------------------------
(* The event loop statement by statement.  A callback (a task from one     *)
(* await to the next, or a signal handler) is entered by the loop, runs    *)
(* its statements one at a time and returns to the loop; frame holds the   *)
(* callback in progress.  The statements that matter are the external      *)
(* commands (subprocess.run, synchronous: the callback does not return to  *)
(* the loop while the command runs), the write of full_text and print.     *)
(* The environment may raise a signal at any moment (pending); the loop    *)
(* calls the handler registered by add_signal_handler between callbacks.   *)

\* the classes whose out_once runs commands through sh_out
RunsCommand(cls) == cls \in {"BDisk", "BRAM", "BNetwork", "BVolume"}

Op(op, arg, text) == [op |-> op, arg |-> arg, text |-> text]

\* the statements of a callback whose calls are cs and whose registry, when
\* it returns, is B
RECURSIVE TodoFrom(_, _, _)
TodoFrom(cs, i, B) ==
    IF i > Len(cs) THEN <<>>
    ELSE LET c       == cs[i]
             written == i < Len(cs) /\ cs[i + 1].op = "print"
         IN  (CASE c.op = "run"      -> <<Op("run", c.arg, "")>>
                [] c.op = "out_once" ->
                     (IF RunsCommand(Get(B, c.arg).name)
                      THEN <<Op("sh_out", c.arg, "")>> ELSE <<>>)
                     \o (IF written
                         THEN <<Op("write", c.arg, Get(B, c.arg).full_text)>>
                         ELSE <<>>)
                [] c.op = "print"    -> <<Op("print", "", "")>>
                [] OTHER             -> <<>>)
             \o TodoFrom(cs, i + 1, B)

\* sys.stdin.readline runs in an executor thread (run_in_executor): the loop
\* is not held while click_handler waits for a line
ReadlineHoldsLoop_Direct == TRUE
ReadlineHoldsLoop == FALSE

RouterWaiting ==
    "click_handler" \in DOMAIN task /\ task["click_handler"] = "stdin"

\* the loop may enter a callback
LoopFree == frame = NoFrame /\ ~(ReadlineHoldsLoop /\ RouterWaiting)

\* loop.add_signal_handler: the handler is called by the loop, as a callback
HandlerMayRun_SignalContext == TRUE
HandlerMayRun == LoopFree

\* what the router task is doing while it handles a line: it is running, and
\* reads the next line only after on_click has returned
Handling_Detached == "stdin"
Handling == "running"

\* the data sources answer: what a failing data source does to a task is
\* the subject of Spec, the statement-level view is about who runs when
Answers == {r \in Readings : r.ok}

StepInit ==
    /\ AfterMain
    /\ task = [t \in {"click_handler"} \cup Keys(Registered) |-> "ready"]
    /\ ready = <<"click_handler">> \o [i \in 1..Len(Registered) |-> Registered[i].key]
    /\ frame = NoFrame
    /\ pending = {}
    /\ src = NoSource
    /\ clock = 0
    /\ dt = NoLoop

\* the loop enters callback who, which will make the calls of m
Enter(who, l, m, next) ==
    /\ frame' = [who |-> who, todo |-> TodoFrom(m.calls, 1, m.blocks), done |-> <<>>,
                 cmd |-> "", calls |-> m.calls, line |-> l, next |-> next]
    /\ task' = IF who = "click_handler" THEN [task EXCEPT ![who] = Handling]
               ELSE IF who \in DOMAIN task THEN [task EXCEPT ![who] = "running"]
               ELSE task
    /\ UNCHANGED <<mainpc, out, blocks, handlers, nfaults, cb, line, calls,
                   src, clock, dt>>

InProgress == frame # NoFrame
NextOp == Head(frame.todo)
CommandInProgress == InProgress /\ frame.cmd # ""

\* subprocess.run(...) is called: the command starts
CmdStart ==
    /\ InProgress /\ frame.todo # <<>> /\ frame.cmd = ""
    /\ NextOp.op \in {"run", "sh_out"}
    /\ frame' = [frame EXCEPT !.cmd = NextOp.op]
    /\ UNCHANGED <<mainpc, out, blocks, handlers, task, ready, nevents, nread,
                   nfaults, cb, line, calls, pending, src, clock, dt>>

\* the command exits and subprocess.run returns
CmdReturn ==
    /\ CommandInProgress
    /\ frame' = [frame EXCEPT !.cmd = "", !.todo = Tail(@), !.done = Append(@, NextOp)]
    /\ UNCHANGED <<mainpc, out, blocks, handlers, task, ready, nevents, nread,
                   nfaults, cb, line, calls, pending, src, clock, dt>>

\* self['full_text'] = ...
WriteFullText ==
    /\ InProgress /\ frame.todo # <<>> /\ NextOp.op = "write"
    /\ blocks' = Put(blocks, NextOp.arg,
                     [Get(blocks, NextOp.arg) EXCEPT !.full_text = NextOp.text])
    /\ frame' = [frame EXCEPT !.todo = Tail(@), !.done = Append(@, NextOp)]
    /\ UNCHANGED <<mainpc, out, handlers, task, ready, nevents, nread,
                   nfaults, cb, line, calls, pending, src, clock, dt>>

\* self.statusline.print()
PrintStep ==
    /\ InProgress /\ frame.todo # <<>> /\ NextOp.op = "print"
    /\ out' = Append(out, PrintLine(blocks))
    /\ frame' = [frame EXCEPT !.todo = Tail(@), !.done = Append(@, NextOp)]
    /\ UNCHANGED <<mainpc, blocks, handlers, task, ready, nevents, nread,
                   nfaults, cb, line, calls, pending, src, clock, dt>>

\* the callback returns to the loop: at its next await, at its end, or by an
\* exception
Return ==
    /\ InProgress /\ frame.todo = <<>>
    /\ task' = IF frame.who \in DOMAIN task
               THEN [task EXCEPT ![frame.who] = frame.next] ELSE task
    /\ cb' = frame.who
    /\ line' = frame.line
    /\ calls' = frame.calls
    /\ frame' = NoFrame
    /\ UNCHANGED <<mainpc, out, blocks, handlers, ready, nevents, nread,
                   nfaults, pending, src, clock, dt>>

\* the environment raises a signal the program has a handler for
SignalArrive(sig) ==
    /\ Running /\ nevents < MaxEvents
    /\ sig \in handlers /\ sig \notin pending
    /\ nevents' = nevents + 1
    /\ pending' = pending \cup {sig}
    /\ UNCHANGED <<mainpc, out, blocks, handlers, task, ready, nread, nfaults,
                   cb, line, calls, frame, src, clock, dt>>

\* the loop calls signal_handler(sig) for a pending signal, when it is due:
\* between callbacks, after the tasks that were ready before it
SignalDue(sig) == HandlerMayRun /\ Idle /\ sig \in pending
SignalEnter(sig, r) ==
    /\ SignalDue(sig)
    /\ pending' = pending \ {sig}
    /\ Enter("signal_handler", <<>>, signal_handler(Run0, sig, r), "")
    /\ UNCHANGED <<ready, nevents, nread>>

\* click_handler is started and runs up to its first await of readline
RouterEnter ==
    /\ LoopFree /\ First("click_handler")
    /\ ready' = Tail(ready)
    /\ Enter("click_handler", <<>>, Run0, "stdin")
    /\ UNCHANGED <<nevents, nread, pending>>

\* readline returns line l and click_handler resumes
RouterResume(l, r) ==
    /\ frame = NoFrame /\ Event
    /\ RouterWaiting
    /\ nevents' = nevents + 1
    /\ nread' = nread + 1
    /\ LET m == IF l = EOF THEN Run0 ELSE HandleLine(Run0, l, r)
       IN  Enter("click_handler", l, m,
                 IF l = EOF THEN "done" ELSE IF m.exc THEN "failed" ELSE "stdin")
    /\ UNCHANGED <<ready, pending>>

\* an iteration of out_loop of BCPU, BRAM, BDisk, BVolume, BDateTime begins:
\* the first from the ready queue, the later ones when the sleep ends
LoopEnter(k, r) ==
    /\ LoopFree
    /\ k \in Keys(blocks) /\ ClassOf(k) # "BNetwork"
    /\ \/ /\ First(k)
          /\ ready' = Tail(ready)
          /\ UNCHANGED nevents
       \/ /\ Event /\ task[k] = "sleep"
          /\ nevents' = nevents + 1
          /\ UNCHANGED ready
    /\ LET m == out_once(Run0, k, r)
       IN  Enter(k, <<>>, m, IF m.exc THEN "failed" ELSE "sleep")
    /\ UNCHANGED <<nread, pending>>

\* BNetwork.out_loop begins: out_once, then await create_subprocess_shell
NetEnter(k, r) ==
    /\ LoopFree
    /\ k \in Keys(blocks) /\ ClassOf(k) = "BNetwork"
    /\ First(k)
    /\ ready' = Tail(ready)
    /\ LET m == out_once(Run0, k, r)
       IN  Enter(k, <<>>, m, IF m.exc THEN "failed" ELSE "spawn")
    /\ UNCHANGED <<nevents, nread, pending>>

\* BNetwork.out_loop resumes: the monitor exists, await its first line
NetSpawnedEnter(k) ==
    /\ LoopFree
    /\ k \in Keys(blocks) /\ ClassOf(k) = "BNetwork"
    /\ Idle /\ task[k] = "spawn"
    /\ Enter(k, <<>>, Run0, "monitor")
    /\ UNCHANGED <<ready, nevents, nread, pending>>

\* BNetwork.out_loop resumes with a line of the monitor
NetLineEnter(k, r) ==
    /\ LoopFree
    /\ k \in Keys(blocks) /\ ClassOf(k) = "BNetwork"
    /\ Event /\ task[k] = "monitor"
    /\ nevents' = nevents + 1
    /\ LET m == out_once(Run0, k, r)
       IN  Enter(k, <<>>, m, IF m.exc THEN "failed" ELSE "monitor")
    /\ UNCHANGED <<ready, nread, pending>>

\* BNetwork.out_loop resumes at the monitor's end of file and ends
NetEOFEnter(k) ==
    /\ LoopFree
    /\ k \in Keys(blocks) /\ ClassOf(k) = "BNetwork"
    /\ Event /\ task[k] = "monitor"
    /\ nevents' = nevents + 1
    /\ Enter(k, <<>>, Run0, "done")
    /\ UNCHANGED <<ready, nread, pending>>

StepNext ==
    \/ \E sig \in handlers : SignalArrive(sig)
    \/ \E sig \in handlers, r \in Answers : SignalEnter(sig, r)
    \/ RouterEnter
    \/ \E l \in StdinLines, r \in Answers : RouterResume(l, r)
    \/ \E k \in Keys(blocks), r \in Answers : LoopEnter(k, r)
    \/ \E k \in Keys(blocks), r \in Answers : NetEnter(k, r)
    \/ \E k \in Keys(blocks) : NetSpawnedEnter(k)
    \/ \E k \in Keys(blocks), r \in Answers : NetLineEnter(k, r)
    \/ \E k \in Keys(blocks) : NetEOFEnter(k)
    \/ CmdStart
    \/ CmdReturn
    \/ WriteFullText
    \/ PrintStep
    \/ Return

StepSpec == StepInit /\ [][StepNext]_vars

\* an update is between its write of full_text and its print
MidUpdate ==
    /\ InProgress /\ frame.done # <<>>
    /\ frame.done[Len(frame.done)].op = "write"

\* C14: for any interleaving of block loops, click handling and signal
\* delivery, an update (the write of full_text followed by the render) is
\* indivisible: between the write and the end of the emitted line no other
\* update, click handler, signal handler or render runs, and every emitted
\* line is one whole render of the registry.
C14_UpdateIndivisible ==
    /\ [](\A i \in (Len(Preamble) + 1)..Len(out) : IsRenderLine(out[i]))
    /\ [][ MidUpdate =>
             /\ blocks' = blocks
             /\ cb' = cb
             /\ frame'.who = frame.who /\ frame'.calls = frame.calls
             /\ \/ out' = out /\ frame' = frame
                \/ /\ out' = Append(out, PrintLine(blocks))
                   /\ ObjectsOf(out'[Len(out')]) = Values(blocks')
                   /\ frame'.done = Append(frame.done, Op("print", "", "")) ]_vars

\* C14 witness: a signal is raised while an update is between its write and
\* its print
C14_Witness == MidUpdate /\ pending # {}

\* C15: each click event is dispatched to at most one block, and that
\* block's on_click, render included, completes before the router starts
\* reading the next line; on_click is never entered for a second event while
\* one is in progress.
ClicksOf(cs) == SelectSeq(cs, LAMBDA c : c.op = "on_click")
C16_RouterWaitLeavesLoopFree ==
    (RouterWaiting /\ frame = NoFrame) =>
        /\ ready # <<>> =>
               ENABLED (\E r \in Answers : LoopEnter(Head(ready), r) \/ NetEnter(Head(ready), r))
        /\ (Idle /\ nevents < MaxEvents) =>
               /\ \A k \in Keys(blocks) :
                      /\ task[k] = "sleep" => ENABLED (\E r \in Answers : LoopEnter(k, r))
                      /\ task[k] = "monitor" => ENABLED (\E r \in Answers : NetLineEnter(k, r))
               /\ \A sig \in handlers \ pending : ENABLED SignalArrive(sig)
        /\ Idle => \A sig \in pending : SignalDue(sig)

\* C16 witness: no line has arrived, the router waits, and a block whose
\* sleep ended has updated and rendered
C16_Witness ==
    /\ RouterWaiting /\ frame = NoFrame /\ nread = 0
    /\ nevents = 1 /\ pending = {}
    /\ cb \in Keys(blocks) /\ task[cb] = "sleep"
    /\ CallsOf("print") # <<>>

\* C17: while one block's external command is in progress (in its update or
\* in its click handler's side effect), the other block loops, the router
\* and the signal broadcaster can still take steps.
C17_CommandLeavesLoopFree ==
    CommandInProgress =>
        /\ ready # <<>> =>
               ENABLED (\E r \in Answers : LoopEnter(Head(ready), r) \/ NetEnter(Head(ready), r))
        /\ (Idle /\ nevents < MaxEvents) =>
               /\ \A k \in Keys(blocks) \ {frame.who} :
                      task[k] = "sleep" => ENABLED (\E r \in Answers : LoopEnter(k, r))
               /\ RouterWaiting =>
                      ENABLED (\E l \in StdinLines, r \in Answers : RouterResume(l, r))
        /\ Idle => \A sig \in pending : SignalDue(sig)

====
